---------------------------- MODULE Spec2Model ----------------------------
(***************************************************************************)
(* The Register and ResetPassword pages of the admin panel: schema         *)
(* validation, normalisation, dispatch of the authentication request and   *)
(* handling of its response.                                               *)
(*                                                                         *)
(* A JavaScript string is a sequence of one-character strings, so that     *)
(* trim, length and the regular-expression searches are computed.          *)
(* undefined / null is the sentinel Undefined, which is no string.         *)
(***************************************************************************)
EXTENDS Integers, Sequences, FiniteSets, TLC

(* ------------------------------ bounds ------------------------------- *)

\* Submit events handled per mounted component.
MaxSubmits == 2

(* ------------------------------ strings ------------------------------ *)

Undefined == <<"<undefined>">>

Lower == {"a", "b", "c", "d", "e", "f", "g", "h", "l", "o"}
Upper == {"A", "B", "C", "D", "E", "F", "G", "H"}
Digit == {"0", "1", "2", "3", "4", "5", "6", "7", "8", "9"}
WhiteSpace == {" "}

\* RegExp.prototype.test for a one-character class: some character matches.
Matches(s, class) == \E i \in 1..Len(s) : s[i] \in class

RECURSIVE TrimStart(_)
TrimStart(s) ==
    IF s # <<>> /\ Head(s) \in WhiteSpace THEN TrimStart(Tail(s)) ELSE s

RECURSIVE TrimEnd(_)
TrimEnd(s) ==
    IF s # <<>> /\ s[Len(s)] \in WhiteSpace
    THEN TrimEnd(SubSeq(s, 1, Len(s) - 1))
    ELSE s

\* String.prototype.trim
Trim(s) == TrimEnd(TrimStart(s))

\* JavaScript truthiness of a string | undefined value
Truthy(v) == v # Undefined /\ v # <<>>

(* ------------------------- validation messages ----------------------- *)

MsgRequired(text) == [id |-> "components.Input.error.validation.required", defaultMessage |-> text]
MsgMinLength == [id |-> "components.Input.error.validation.minLength", defaultMessage |-> "Password must be at least 8 characters"]
MsgLowercase == [id |-> "components.Input.error.contain.lowercase", defaultMessage |-> "Password must contain at least 1 lowercase letter"]
MsgUppercase == [id |-> "components.Input.error.contain.uppercase", defaultMessage |-> "Password must contain at least 1 uppercase letter"]
MsgNumber == [id |-> "components.Input.error.contain.number", defaultMessage |-> "Password must contain at least 1 number"]
MsgNoMatch == [id |-> "components.Input.error.password.noMatch", defaultMessage |-> "Passwords must match"]
MsgEmail == [id |-> "components.Input.error.validation.email", defaultMessage |-> "Not a valid email"]
MsgEmailLowercase == [id |-> "components.Input.error.validation.lowercase", defaultMessage |-> "Email must be lowercase"]

\* react-intl formatMessage with no translation loaded: the default message.
formatMessage(message) == message.defaultMessage

(* ------------------------------ schemas ------------------------------ *)
(* A field schema yields the list of its failing tests, in the order yup   *)
(* runs them under abortEarly: false (the order of err.inner).             *)

MinPasswordLength == 8

Err(path, message) == [path |-> path, message |-> message]

Test(ok, path, message) == IF ok THEN <<>> ELSE <<Err(path, message)>>

\* yup string().required(): present and of non-zero length
IsPresent(v) == v # Undefined /\ Len(v) > 0

PasswordMin(v) == Len(v) >= MinPasswordLength

\* password: string().min(8).matches(/[a-z]/).matches(/[A-Z]/).matches(/\d/).required()
PasswordErrors(v) ==
    Test(PasswordMin(v), "password", MsgMinLength)
    \o Test(Matches(v, Lower), "password", MsgLowercase)
    \o Test(Matches(v, Upper), "password", MsgUppercase)
    \o Test(Matches(v, Digit), "password", MsgNumber)
    \o Test(IsPresent(v), "password", MsgRequired("Password is required"))

\* variant: the comparison is skipped while the password itself is invalid
OneOfPasswordLenient(v, password) == v = password \/ PasswordErrors(password) # <<>>
\* oneOf([yup.ref('password'), null]): the value is the sibling password
OneOfPassword(v, password) == v = password

\* confirmPassword: string().required().oneOf([ref('password'), null]).
\* yup runs the whitelist test before the chained tests and stops on it.
ConfirmPasswordErrors(v, password) ==
    IF ~OneOfPassword(v, password)
    THEN <<Err("confirmPassword", MsgNoMatch)>>
    ELSE Test(IsPresent(v), "confirmPassword", MsgRequired("Confirm password is required"))

\* firstname: string().trim().required(); the cast trims before the test
FirstnameErrors(v) ==
    Test(IsPresent(Trim(v)), "firstname", MsgRequired("Firstname is required"))

\* lastname: string().nullable(): every string, and undefined, passes
LastnameErrors(v) == <<>>

\* registrationToken: string().required()
RegistrationTokenErrors(v) ==
    Test(IsPresent(v), "registrationToken", MsgRequired("Registration token is required"))

\* yup's email pattern, on the characters used here: local@domain, both
\* non-empty, one "@", no white space.  The empty string is excluded
\* from the test (excludeEmptyString).
IsEmail(v) ==
    \/ v = <<>>
    \/ /\ Cardinality({i \in 1..Len(v) : v[i] = "@"}) = 1
       /\ v[1] # "@"
       /\ v[Len(v)] # "@"
       /\ ~Matches(v, WhiteSpace)

\* email: string().email().strict().lowercase().required()
EmailErrors(v) ==
    Test(IsEmail(v), "email", MsgEmail)
    \o Test(~Matches(v, Upper), "email", MsgEmailLowercase)
    \o Test(IsPresent(v), "email", MsgRequired("Email is required"))

RESET_PASSWORD_SCHEMA(values) ==
    PasswordErrors(values.password)
    \o ConfirmPasswordErrors(values.confirmPassword, values.password)

REGISTER_USER_SCHEMA(values) ==
    FirstnameErrors(values.firstname)
    \o LastnameErrors(values.lastname)
    \o PasswordErrors(values.password)
    \o ConfirmPasswordErrors(values.confirmPassword, values.password)
    \o RegistrationTokenErrors(values.registrationToken)

REGISTER_ADMIN_SCHEMA(values) ==
    FirstnameErrors(values.firstname)
    \o LastnameErrors(values.lastname)
    \o PasswordErrors(values.password)
    \o ConfirmPasswordErrors(values.confirmPassword, values.password)
    \o EmailErrors(values.email)

(* --------------------------- normalisation --------------------------- *)

\* typeof value === 'string': news is the only boolean field
IsString(key, value) == key # "news" /\ value # Undefined

\* One step of the reduce in normalizeData.  For lastname the trimmed
\* value is overwritten by `value || undefined`, the value as entered.
NormalizeValue(key, value) ==
    IF key \notin {"password", "confirmPassword"} /\ IsString(key, value)
    THEN IF key = "lastname"
         THEN IF Truthy(value) THEN value ELSE Undefined
         ELSE Trim(value)
    ELSE value

normalizeData(data) == [key \in DOMAIN data |-> NormalizeValue(key, data[key])]

\* lodash omit
omit(object, keys) == [key \in DOMAIN object \ keys |-> object[key]]

(* ------------------------- errors to form state ---------------------- *)

Put(acc, key, value) ==
    [k \in DOMAIN acc \cup {key} |-> IF k = key THEN value ELSE acc[k]]

NoErrors == [k \in {} |-> ""]

\* variant: the first error of a path is kept
RECURSIVE ReduceFirstWins(_, _)
ReduceFirstWins(inner, acc) ==
    IF inner = <<>> THEN acc
    ELSE ReduceFirstWins(Tail(inner),
            IF Head(inner).path \in DOMAIN acc THEN acc
            ELSE Put(acc, Head(inner).path, formatMessage(Head(inner).message)))

\* err.inner.reduce((acc, {message, path}) => { acc[path] = formatMessage(message) }, {}):
\* a later error of a path overwrites an earlier one (every error of the
\* schemas has a path and an object message)
RECURSIVE ReduceInner(_, _)
ReduceInner(inner, acc) ==
    IF inner = <<>> THEN acc
    ELSE ReduceInner(Tail(inner),
            Put(acc, Head(inner).path, formatMessage(Head(inner).message)))

\* The Form component's own validation (ResetPassword passes it the
\* schema): field name -> first failing rule's message.
FormValidationErrors(inner) ==
    [p \in {inner[i].path : i \in DOMAIN inner} |->
        LET first == CHOOSE i \in DOMAIN inner :
                        /\ inner[i].path = p
                        /\ \A j \in 1..(i - 1) : inner[j].path # p
        IN  formatMessage(inner[first].message)]

(* ------------------------------ requests ----------------------------- *)

\* variant: the form values are sent as they are
ResetBodyWithConfirm(values, code) ==
    [password |-> values.password, confirmPassword |-> values.confirmPassword,
     resetPasswordToken |-> code]

\* { password: values.password, resetPasswordToken: query.get('code')! }
ResetBody(values, code) ==
    [password |-> values.password, resetPasswordToken |-> code]

\* handleRegisterUser's argument without news
RegisterUserBody(normalizedData) ==
    [userInfo |-> omit(normalizedData, {"registrationToken", "confirmPassword", "email", "news"}),
     registrationToken |-> normalizedData.registrationToken]

\* handleRegisterAdmin's argument without news
RegisterAdminBody(normalizedData) ==
    omit(omit(normalizedData, {"registrationToken", "confirmPassword"}), {"news"})

\* the operation Register.onSubmit dispatches
RegisterOperation(normalizedData) ==
    IF Truthy(normalizedData.registrationToken) THEN "registerUser" ELSE "registerAdmin"

(* ------------------------------- guards ------------------------------ *)

NoMatch == "<no match>"

\* variant: only a missing parameter fails the guard
HasResetCodeLoose(code) == code # Undefined
\* !query.get('code') is false
HasResetCode(code) == Truthy(code)

\* match && (authType === 'register' || authType === 'register-admin')
IsRegisterRoute(authType) ==
    authType # NoMatch /\ authType \in {"register", "register-admin"}

isAdminRegistration(authType) == authType = "register-admin"

\* const schema = isAdminRegistration ? REGISTER_ADMIN_SCHEMA : REGISTER_USER_SCHEMA
schema(authType, values) ==
    IF isAdminRegistration(authType)
    THEN REGISTER_ADMIN_SCHEMA(values)
    ELSE REGISTER_USER_SCHEMA(values)

(* ------------------------------ responses ---------------------------- *)

NoName == "<undefined>"
NoMessage == "<undefined>"
NoToken == "<undefined>"

\* error.name !== undefined
isBaseQueryError(error) == error.name # NoName

\* useAPIErrorHandler()._unstableFormatAPIError
formatAPIError(error) == error.message

\* useAPIErrorHandler()._unstableFormatValidationErrors: the details
\* of the error, path -> message
RECURSIVE formatValidationErrors(_)
formatValidationErrors(details) ==
    IF details = <<>> THEN NoErrors
    ELSE Put(formatValidationErrors(Tail(details)), Head(details).path, Head(details).message)

Tokens == {"jwt-1", "jwt-2"}

RoleLists == {Undefined, <<"strapi-editor">>, <<"strapi-editor", "strapi-super-admin">>}

ServerDetails ==
    { <<[path |-> "email", message |-> "Email already taken"]>>,
      <<[path |-> "firstname", message |-> "Too short"],
        [path |-> "password", message |-> "Too common"]>> }

ApiErrors ==
    { [name |-> "ValidationError", message |-> "Invalid payload", details |-> d] : d \in ServerDetails }
    \cup { [name |-> "ApplicationError", message |-> "Something went wrong", details |-> <<>>],
           [name |-> "ForbiddenError", message |-> "Forbidden", details |-> <<>>],
           [name |-> NoName, message |-> "Failed to fetch", details |-> <<>>] }

NoApiError == [name |-> NoName, message |-> NoMessage, details |-> <<>>]

\* { data: { token, user: { roles } } } | { error }
Responses ==
    { [kind |-> "data", token |-> t, roles |-> r, error |-> NoApiError] :
        t \in Tokens, r \in RoleLists }
    \cup { [kind |-> "error", token |-> NoToken, roles |-> Undefined, error |-> e] :
        e \in ApiErrors }

\* the responses of resetPassword and registerUser carry no roles
PlainResponses == { r \in Responses : r.roles = Undefined }

(* -------------------------------- inputs ----------------------------- *)

Firstnames == { <<>>, <<" ", "A", "l", " ">> }
Lastnames == { <<>>, <<" ", "B", "o", " ">> }
Emails == { <<" ", "a", "@", "b", " ">>, <<"A", "@", "b">> }

ValidPassword == <<"A", "b", "c", "d", "e", "f", "1", "2">>

Passwords ==
    { <<>>,
      <<"a", "b", "c">>,
      <<"A", "B", "C", "D", "E", "F", "G", "1">>,
      ValidPassword,
      ValidPassword \o <<" ">> }

\* what the user may have typed in the two password inputs: the same
\* password twice, or a password and ValidPassword
PasswordPairs ==
    { [password |-> p, confirmPassword |-> p] : p \in Passwords }
    \cup { [password |-> p, confirmPassword |-> ValidPassword] :
                p \in Passwords \ {<<"A", "B", "C", "D", "E", "F", "G", "1">>} }

QueryCodes == { Undefined, <<>>, <<"a", "b", "c", "1", "2", "3">> }
QueryTokens == { Undefined, <<"t", "o", "k">> }
AuthTypes == { "register", "register-admin", "login", NoMatch }

\* the values of the Register form at a submit; registrationToken has no
\* input and keeps its initial value, registrationToken || undefined
Values(f, l, e, pp, n, token) ==
    [firstname |-> f, lastname |-> l, email |-> e,
     password |-> pp.password, confirmPassword |-> pp.confirmPassword,
     registrationToken |-> IF Truthy(token) THEN token ELSE Undefined,
     news |-> n]

\* every combination of the other fields with ValidPassword typed twice,
\* and every password pair with a filled and with an empty firstname
RegisterValues(token) ==
    { Values(f, l, e, [password |-> ValidPassword, confirmPassword |-> ValidPassword], n, token) :
        f \in Firstnames, l \in Lastnames, e \in Emails, n \in BOOLEAN }
    \cup { Values(f, <<>>, <<" ", "a", "@", "b", " ">>, pp, FALSE, token) :
        f \in Firstnames, pp \in PasswordPairs }

NoValues == [none |-> TRUE]
NoCall == [op |-> "none"]
NoResponse == [op |-> "none"]

(* -------------------------------- state ------------------------------ *)

VARIABLES
    component,      \* the page mounted: "Register" or "ResetPassword"
    authType,       \* useMatch('/auth/:authType') params, or NoMatch
    queryCode,      \* query.get('code')
    queryToken,     \* query.get('registrationToken')
    hasAdmin,       \* the hasAdmin prop of Register, as it prints
    rendered,       \* "unmounted", "form", "redirect" (<Navigate>), "left"
    redirectTo,     \* target of the <Navigate> element
    infoQuery,      \* useGetRegistrationInfoQuery: "skipped", "loading", "ok", "error"
    notified,       \* toggleNotification was called
    errors,         \* the Form's field errors, path -> message
    apiError,       \* Register's apiError state
    mutationError,  \* the error of useResetPasswordMutation
    submitCount,    \* Register's submitCount state
    token,          \* the auth context's token
    navs,           \* the calls of navigate, in order
    pending,        \* requests in flight, with what their handler closed over
    nSubmits,       \* submit events handled
    steps,          \* per submit event, its side effects in order
    lastSubmit,     \* the values of the latest submit event
    lastCall,       \* the request the latest submit event dispatched, if any
    lastResponse,   \* the response the latest step handled, if it handled one
    tracked,        \* trackUsage events
    npsEnabled,     \* setNpsSurveySettings enabled the survey
    tourSkipped     \* GUIDED_TOUR_SKIPPED as stored: "unset" or "false"

vars == <<component, authType, queryCode, queryToken, hasAdmin, rendered,
          redirectTo, infoQuery, notified, errors, apiError, mutationError,
          submitCount, token, navs, pending, nSubmits, steps, lastSubmit,
          lastCall, lastResponse, tracked, npsEnabled, tourSkipped>>

route == <<component, authType, queryCode, queryToken, hasAdmin>>

Init ==
    /\ \/ /\ component = "Register"
          /\ authType \in AuthTypes
          /\ queryToken \in QueryTokens
          /\ queryCode = Undefined
          /\ hasAdmin \in {"true", "undefined"}
       \/ /\ component = "ResetPassword"
          /\ authType = NoMatch
          /\ queryToken = Undefined
          /\ queryCode \in QueryCodes
          /\ hasAdmin = "undefined"
    /\ rendered = "unmounted"
    /\ redirectTo = "<none>"
    /\ infoQuery = "skipped"
    /\ notified = FALSE
    /\ errors = NoErrors
    /\ apiError = NoMessage
    /\ mutationError = NoApiError
    /\ submitCount = 0
    /\ token = NoToken
    /\ navs = <<>>
    /\ pending = {}
    /\ nSubmits = 0
    /\ steps = <<>>
    /\ lastSubmit = NoValues
    /\ lastCall = NoCall
    /\ lastResponse = NoResponse
    /\ tracked = {}
    /\ npsEnabled = FALSE
    /\ tourSkipped = "unset"

(* ------------------------------- render ------------------------------ *)

\* Register: the authType guard, and the registration-info query it starts
RenderRegister ==
    /\ component = "Register"
    /\ rendered = "unmounted"
    /\ IF IsRegisterRoute(authType)
       THEN /\ rendered' = "form"
            /\ redirectTo' = redirectTo
            /\ infoQuery' = IF Truthy(queryToken) THEN "loading" ELSE "skipped"
       ELSE /\ rendered' = "redirect"
            /\ redirectTo' = "/"
            /\ infoQuery' = infoQuery
    /\ lastResponse' = NoResponse
    /\ UNCHANGED <<route, notified, errors, apiError, mutationError, submitCount,
                   token, navs, pending, nSubmits, steps, lastSubmit, lastCall,
                   tracked, npsEnabled, tourSkipped>>

\* ResetPassword: the code guard
RenderResetPassword ==
    /\ component = "ResetPassword"
    /\ rendered = "unmounted"
    /\ IF HasResetCode(queryCode)
       THEN /\ rendered' = "form"
            /\ redirectTo' = redirectTo
       ELSE /\ rendered' = "redirect"
            /\ redirectTo' = "/auth/login"
    /\ lastResponse' = NoResponse
    /\ UNCHANGED <<route, infoQuery, notified, errors, apiError, mutationError,
                   submitCount, token, navs, pending, nSubmits, steps, lastSubmit,
                   lastCall, tracked, npsEnabled, tourSkipped>>

\* the registration-info query resolves with data: the form is pre-filled
RegistrationInfoSuccess ==
    /\ rendered = "form"
    /\ infoQuery = "loading"
    /\ infoQuery' = "ok"
    /\ lastResponse' = NoResponse
    /\ UNCHANGED <<route, rendered, redirectTo, notified, errors, apiError,
                   mutationError, submitCount, token, navs, pending, nSubmits,
                   steps, lastSubmit, lastCall, tracked, npsEnabled, tourSkipped>>

\* the effect on the query's error: a warning and navigate('/auth/oops?info=..')
RegistrationInfoError ==
    /\ rendered = "form"
    /\ infoQuery = "loading"
    /\ infoQuery' = "error"
    /\ notified' = TRUE
    /\ navs' = Append(navs, [pathname |-> "/auth/oops", search |-> "?info=", sub |-> 0])
    /\ rendered' = "left"
    /\ lastResponse' = NoResponse
    /\ UNCHANGED <<route, redirectTo, errors, apiError, mutationError, submitCount,
                   token, pending, nSubmits, steps, lastSubmit, lastCall, tracked,
                   npsEnabled, tourSkipped>>

(* ------------------------------- submit ------------------------------ *)

\* the side effects of a submit event are appended to its own trace
Extend(id, new) ==
    IF id \in DOMAIN steps
    THEN [steps EXCEPT ![id] = @ \o new]
    ELSE Append(steps, new)

Request(id, op, news) == [id |-> id, op |-> op, news |-> news]

\* Register.onSubmit: normalizeData(data), then schema.validate(normalizedData)
RegisterSubmitSteps == <<"normalize", "validate">>

\* variant: the request does not wait for the validation
RegisterDispatchesAlways(inner) == TRUE
\* schema.validate resolves, so that the try block goes on to the request
RegisterDispatches(inner) == inner = <<>>

\* Register's Form onSubmit(data, helpers)
RegisterSubmit(data) ==
    LET id == nSubmits + 1
        normalizedData == normalizeData(data)
        inner == schema(authType, normalizedData)
        op == RegisterOperation(normalizedData)
    IN
    /\ component = "Register"
    /\ rendered = "form"
    /\ nSubmits < MaxSubmits
    /\ nSubmits' = id
    /\ lastSubmit' = data
    /\ IF RegisterDispatches(inner)
       THEN /\ tracked' = IF submitCount > 0 /\ isAdminRegistration(authType)
                          THEN tracked \cup {"didSubmitWithErrorsFirstAdmin"}
                          ELSE tracked
            /\ pending' = pending \cup {Request(id, op, normalizedData.news)}
            /\ lastCall' = [op |-> op, sub |-> id,
                            body |-> IF op = "registerUser"
                                     THEN RegisterUserBody(normalizedData)
                                     ELSE RegisterAdminBody(normalizedData)]
            /\ steps' = Extend(id, RegisterSubmitSteps \o <<"call">>)
            /\ UNCHANGED <<errors, submitCount>>
       ELSE /\ errors' = ReduceInner(inner, NoErrors)
            /\ submitCount' = submitCount + 1
            /\ steps' = Extend(id, RegisterSubmitSteps \o <<"setErrors", "setSubmitCount">>)
            /\ lastCall' = NoCall
            /\ UNCHANGED <<tracked, pending>>
    /\ lastResponse' = NoResponse
    /\ UNCHANGED <<route, rendered, redirectTo, infoQuery, notified, apiError,
                   mutationError, token, navs, npsEnabled, tourSkipped>>

\* The Form component calls onSubmit when its validationSchema accepts
\* the values.
FormSubmits(inner) == inner = <<>>

\* ResetPassword's Form: validate against RESET_PASSWORD_SCHEMA, then
\* onSubmit(values) -> handleSubmit(body) -> resetPassword(body)
ResetPasswordSubmit(values) ==
    LET id == nSubmits + 1
        inner == RESET_PASSWORD_SCHEMA(values)
    IN
    /\ component = "ResetPassword"
    /\ rendered = "form"
    /\ nSubmits < MaxSubmits
    /\ nSubmits' = id
    /\ lastSubmit' = values
    /\ IF FormSubmits(inner)
       THEN /\ pending' = pending \cup {Request(id, "resetPassword", FALSE)}
            /\ lastCall' = [op |-> "resetPassword", sub |-> id,
                            body |-> ResetBody(values, queryCode)]
            /\ mutationError' = NoApiError
            /\ steps' = Extend(id, <<"validate", "call">>)
            /\ UNCHANGED errors
       ELSE /\ errors' = FormValidationErrors(inner)
            /\ steps' = Extend(id, <<"validate", "setErrors">>)
            /\ lastCall' = NoCall
            /\ UNCHANGED <<pending, mutationError>>
    /\ lastResponse' = NoResponse
    /\ UNCHANGED <<route, rendered, redirectTo, infoQuery, notified, apiError,
                   submitCount, token, navs, tracked, npsEnabled, tourSkipped>>

(* ------------------------------ responses ---------------------------- *)

Nav(pathname, search, id) == [pathname |-> pathname, search |-> search, sub |-> id]

\* variant: navigate before the token is stored
SuccessStepsNavigateFirst(superAdmin, news) ==
    <<"navigate", "setToken">>
    \o (IF superAdmin THEN <<"setSkipped">> ELSE <<>>)
    \o (IF news THEN <<"setNpsSurveySettings">> ELSE <<>>)
\* setToken(res.data.token); setSkipped(false) for a super admin;
\* setNpsSurveySettings with news; then navigate(..)
SuccessSteps(superAdmin, news) ==
    <<"setToken">>
    \o (IF superAdmin THEN <<"setSkipped">> ELSE <<>>)
    \o (IF news THEN <<"setNpsSurveySettings">> ELSE <<>>)
    \o <<"navigate">>

\* variant: the two targets exchanged
AdminTargetSwapped(news) ==
    IF news THEN [pathname |-> "/", search |-> ""]
    ELSE [pathname |-> "/usecase", search |-> "?hasAdmin=true"]
\* handleRegisterAdmin: navigate({pathname: '/usecase', search: `?hasAdmin=${true}`}) or navigate('/')
AdminTarget(news) ==
    IF news THEN [pathname |-> "/usecase", search |-> "?hasAdmin=true"]
    ELSE [pathname |-> "/", search |-> ""]

\* handleRegisterUser: search is `?hasAdmin=${hasAdmin}`
UserTarget(news, prop) ==
    IF news
    THEN [pathname |-> "/usecase",
          search |-> IF prop = "true" THEN "?hasAdmin=true"
                     ELSE IF prop = "false" THEN "?hasAdmin=false"
                     ELSE "?hasAdmin=undefined"]
    ELSE [pathname |-> "/", search |-> ""]

\* roles.find(({ code }) => code === 'strapi-super-admin')
isUserSuperAdmin(roles) ==
    roles # Undefined /\ \E i \in DOMAIN roles : roles[i] = "strapi-super-admin"

SetsFormErrors(error) ==
    isBaseQueryError(error) /\ error.name = "ValidationError"

\* variant: the ValidationError branch does not return
SetsApiErrorNoReturn(error) == isBaseQueryError(error)
\* setApiError is reached: a base-query error, and no return before it
SetsApiError(error) ==
    isBaseQueryError(error) /\ error.name # "ValidationError"

\* variant: a failure that does not set the API error clears it
ApiErrorAfterFailureCleared(error, current) ==
    IF SetsApiError(error) THEN formatAPIError(error) ELSE NoMessage

\* apiError after a failed response: setApiError is only ever called with
\* formatAPIError(res.error)
ApiErrorAfterFailure(error, current) ==
    IF SetsApiError(error) THEN formatAPIError(error) ELSE current

\* the else branch shared by handleRegisterAdmin and handleRegisterUser
RegisterFailure(req, error) ==
    /\ tracked' = IF isBaseQueryError(error)
                  THEN tracked \cup {"didNotCreateFirstAdmin"}
                  ELSE tracked
    /\ errors' = IF SetsFormErrors(error)
                 THEN formatValidationErrors(error.details)
                 ELSE errors
    /\ apiError' = ApiErrorAfterFailure(error, apiError)
    /\ steps' = Extend(req.id,
                    (IF SetsFormErrors(error) THEN <<"setErrors">> ELSE <<>>)
                    \o (IF SetsApiError(error) THEN <<"setApiError">> ELSE <<>>))
    /\ UNCHANGED <<token, navs, rendered, npsEnabled, tourSkipped>>

\* handleRegisterAdmin after `await registerAdmin(body)`
RegisterAdminResponse(req, res) ==
    /\ req \in pending
    /\ req.op = "registerAdmin"
    /\ pending' = pending \ {req}
    /\ IF res.kind = "data"
       THEN /\ token' = res.token
            /\ tourSkipped' = IF isUserSuperAdmin(res.roles) THEN "false" ELSE tourSkipped
            /\ tracked' = IF isUserSuperAdmin(res.roles)
                          THEN tracked \cup {"didLaunchGuidedtour"}
                          ELSE tracked
            /\ npsEnabled' = (npsEnabled \/ req.news)
            /\ navs' = Append(navs, Nav(AdminTarget(req.news).pathname,
                                        AdminTarget(req.news).search, req.id))
            /\ rendered' = "left"
            /\ steps' = Extend(req.id, SuccessSteps(isUserSuperAdmin(res.roles), req.news))
            /\ UNCHANGED <<errors, apiError>>
       ELSE RegisterFailure(req, res.error)
    /\ lastResponse' = [op |-> req.op, sub |-> req.id, res |-> res]
    /\ UNCHANGED <<route, redirectTo, infoQuery, notified, mutationError,
                   submitCount, nSubmits, lastSubmit, lastCall>>

\* handleRegisterUser after `await registerUser(body)`
RegisterUserResponse(req, res) ==
    /\ req \in pending
    /\ req.op = "registerUser"
    /\ pending' = pending \ {req}
    /\ IF res.kind = "data"
       THEN /\ token' = res.token
            /\ npsEnabled' = (npsEnabled \/ req.news)
            /\ navs' = Append(navs, Nav(UserTarget(req.news, hasAdmin).pathname,
                                        UserTarget(req.news, hasAdmin).search, req.id))
            /\ rendered' = "left"
            /\ steps' = Extend(req.id, SuccessSteps(FALSE, req.news))
            /\ UNCHANGED <<errors, apiError, tracked, tourSkipped>>
       ELSE RegisterFailure(req, res.error)
    /\ lastResponse' = [op |-> req.op, sub |-> req.id, res |-> res]
    /\ UNCHANGED <<route, redirectTo, infoQuery, notified, mutationError,
                   submitCount, nSubmits, lastSubmit, lastCall>>

\* handleSubmit after `await resetPassword(body)`; the mutation hook
\* keeps the error of a failed request
ResetPasswordResponse(req, res) ==
    /\ req \in pending
    /\ req.op = "resetPassword"
    /\ pending' = pending \ {req}
    /\ IF res.kind = "data"
       THEN /\ token' = res.token
            /\ navs' = Append(navs, Nav("/", "", req.id))
            /\ rendered' = "left"
            /\ steps' = Extend(req.id, SuccessSteps(FALSE, FALSE))
            /\ UNCHANGED mutationError
       ELSE /\ mutationError' = res.error
            /\ steps' = Extend(req.id, <<"setMutationError">>)
            /\ UNCHANGED <<token, navs, rendered>>
    /\ lastResponse' = [op |-> req.op, sub |-> req.id, res |-> res]
    /\ UNCHANGED <<route, redirectTo, infoQuery, notified, errors, apiError,
                   submitCount, nSubmits, lastSubmit, lastCall, tracked,
                   npsEnabled, tourSkipped>>

(* ------------------------------- banners ----------------------------- *)

MsgNotificationError == [id |-> "notification.error", defaultMessage |-> "An error occurred"]

\* Register: {apiError ? <Typography role="alert">{apiError}</Typography> : null}
RegisterBanner(apiErr) == apiErr

\* ResetPassword: the alert rendered from the mutation hook's error
ResetPasswordBanner(error) ==
    IF error = NoApiError
    THEN NoMessage
    ELSE IF isBaseQueryError(error)
         THEN formatAPIError(error)
         ELSE formatMessage(MsgNotificationError)

(* ---------------------------- specification -------------------------- *)

Next ==
    \/ RenderRegister
    \/ RenderResetPassword
    \/ RegistrationInfoSuccess
    \/ RegistrationInfoError
    \/ \E data \in RegisterValues(queryToken) : RegisterSubmit(data)
    \/ \E values \in PasswordPairs : ResetPasswordSubmit(values)
    \/ \E req \in pending, res \in Responses : RegisterAdminResponse(req, res)
    \/ \E req \in pending, res \in PlainResponses : RegisterUserResponse(req, res)
    \/ \E req \in pending, res \in PlainResponses : ResetPasswordResponse(req, res)

Spec == Init /\ [][Next]_vars

(* ------------------------------- claims ------------------------------ *)

\* the step just taken handled a submit event
SubmitStep == nSubmits' = nSubmits + 1

\* the step just taken handled the response of a request
ResponseStep == lastResponse' # NoResponse

\* what the latest submit event validated: Register validates the
\* normalised values, the ResetPassword form the values as entered
SubmittedInner(values) ==
    IF component = "Register"
    THEN schema(authType, normalizeData(values))
    ELSE RESET_PASSWORD_SCHEMA(values)

InvalidFields(inner) == {inner[i].path : i \in DOMAIN inner}

\* C1: a submit of the Register form (either variant) or of the
\* ResetPassword form whose values fail the validation run at submit
\* sets an error for every invalid field, for those only, and
\* dispatches no request.
C1_InvalidSubmitDispatchesNothing ==
    [][SubmitStep =>
          LET inner == SubmittedInner(lastSubmit')
          IN  inner # <<>> =>
                /\ pending' = pending
                /\ lastCall' = NoCall
                /\ InvalidFields(inner) # {}
                /\ DOMAIN errors' = InvalidFields(inner)
                /\ "call" \notin {steps'[nSubmits'][i] : i \in DOMAIN steps'[nSubmits']}]_vars

C1_Witness ==
    /\ component = "Register"
    /\ nSubmits > 0
    /\ lastSubmit.password = <<"a", "b", "c">>
    /\ lastCall = NoCall
    /\ "password" \in DOMAIN errors
    /\ pending = {}

\* the password policy, stated on its own
StrongPassword(p) ==
    /\ Len(p) >= 8
    /\ \E i \in DOMAIN p : p[i] \in Lower
    /\ \E i \in DOMAIN p : p[i] \in Upper
    /\ \E i \in DOMAIN p : p[i] \in Digit

\* C2: a reset-password form mounted with query code c, submitted with
\* valid values password = confirmPassword = p, dispatches exactly one
\* request, resetPassword with body {password: p, resetPasswordToken: c}.
C2_ResetDispatchesOnce ==
    [][(/\ SubmitStep
        /\ component = "ResetPassword"
        /\ StrongPassword(lastSubmit'.password)
        /\ lastSubmit'.confirmPassword = lastSubmit'.password) =>
          /\ Cardinality(pending' \ pending) = 1
          /\ pending \subseteq pending'
          /\ \A req \in pending' \ pending : req.op = "resetPassword"
          /\ lastCall' = [op |-> "resetPassword", sub |-> nSubmits',
                          body |-> [password |-> lastSubmit'.password,
                                    resetPasswordToken |-> queryCode]]
          /\ steps'[nSubmits'] = <<"validate", "call">>]_vars

C2_Witness ==
    /\ component = "ResetPassword"
    /\ queryCode = <<"a", "b", "c", "1", "2", "3">>
    /\ lastSubmit = [password |-> ValidPassword, confirmPassword |-> ValidPassword]
    /\ lastCall = [op |-> "resetPassword", sub |-> nSubmits,
                   body |-> [password |-> ValidPassword,
                             resetPasswordToken |-> <<"a", "b", "c", "1", "2", "3">>]]
    /\ Cardinality(pending) = 1

\* the strength checks a password fails, in the order length, lowercase,
\* uppercase, digit, required
FailedChecks(p) ==
    (IF Len(p) < 8 THEN <<"Password must be at least 8 characters">> ELSE <<>>)
    \o (IF \A i \in DOMAIN p : p[i] \notin Lower
        THEN <<"Password must contain at least 1 lowercase letter">> ELSE <<>>)
    \o (IF \A i \in DOMAIN p : p[i] \notin Upper
        THEN <<"Password must contain at least 1 uppercase letter">> ELSE <<>>)
    \o (IF \A i \in DOMAIN p : p[i] \notin Digit
        THEN <<"Password must contain at least 1 number">> ELSE <<>>)
    \o (IF Len(p) = 0 THEN <<"Password is required">> ELSE <<>>)

\* C3 as stated: when the password of a Register submit fails more than
\* one strength check, the one message of the password field is that
\* of the first failing check.
C3_FirstFailingCheck ==
    [][(/\ SubmitStep
        /\ component = "Register"
        /\ Len(FailedChecks(lastSubmit'.password)) > 1) =>
          /\ "password" \in DOMAIN errors'
          /\ errors'["password"] = FailedChecks(lastSubmit'.password)[1]]_vars

\* C3 as amended: when the password of a Register submit fails more
\* than one check, the one message of the password field is that of
\* the last failing check in the order length, lowercase, uppercase,
\* digit, required.
C3_LastFailingCheck ==
    [][(/\ SubmitStep
        /\ component = "Register"
        /\ Len(FailedChecks(lastSubmit'.password)) > 1) =>
          /\ "password" \in DOMAIN errors'
          /\ errors'["password"] =
                FailedChecks(lastSubmit'.password)[Len(FailedChecks(lastSubmit'.password))]]_vars

C3_Witness ==
    /\ component = "Register"
    /\ nSubmits > 0
    /\ lastSubmit.password = <<"a", "b", "c">>
    /\ lastCall = NoCall
    /\ "password" \in DOMAIN errors
    /\ errors["password"] = "Password must contain at least 1 number"

\* C4: whenever confirmPassword differs from password, the validation
\* run at submit reports the confirmPassword field as invalid, whether
\* or not the password passes its own rules (all three schemas).
C4_MismatchIsReported ==
    [][(SubmitStep /\ lastSubmit'.confirmPassword # lastSubmit'.password) =>
          /\ "confirmPassword" \in DOMAIN errors'
          /\ errors'["confirmPassword"] = "Passwords must match"]_vars

C4_Witness ==
    /\ nSubmits > 0
    /\ ~StrongPassword(lastSubmit.password)
    /\ lastSubmit.confirmPassword = ValidPassword
    /\ "confirmPassword" \in DOMAIN errors
    /\ errors["confirmPassword"] = "Passwords must match"
    /\ lastCall = NoCall

\* C5: when the entry precondition fails the form is never rendered and
\* the component redirects: ResetPassword without a non-empty code to
\* /auth/login, Register with an authType other than register or
\* register-admin to /; no submit is handled and nothing is dispatched.
C5_GuardRedirects ==
    /\ (component = "ResetPassword" /\ queryCode \in {Undefined, <<>>}) =>
          /\ rendered \in {"unmounted", "redirect"}
          /\ rendered = "redirect" => redirectTo = "/auth/login"
    /\ (component = "Register" /\ authType \notin {"register", "register-admin"}) =>
          /\ rendered \in {"unmounted", "redirect"}
          /\ rendered = "redirect" => redirectTo = "/"
    /\ rendered \in {"unmounted", "redirect"} =>
          /\ nSubmits = 0
          /\ pending = {}
          /\ lastCall = NoCall
          /\ token = NoToken

C5_Witness ==
    /\ component = "ResetPassword"
    /\ queryCode = <<>>
    /\ rendered = "redirect"
    /\ redirectTo = "/auth/login"

\* the field -> message mapping a server ValidationError provides
ServerMapping(details) ==
    [p \in {details[i].path : i \in DOMAIN details} |->
        details[CHOOSE i \in DOMAIN details : details[i].path = p].message]

\* C6: when registerAdmin or registerUser answers with an error named
\* ValidationError, the field errors become exactly the server's field
\* -> message mapping; that response neither navigates, nor sets the
\* token, nor sets the top-level API error.
C6_ServerValidationError ==
    [][(/\ ResponseStep
        /\ lastResponse'.op \in {"registerAdmin", "registerUser"}
        /\ lastResponse'.res.kind = "error"
        /\ lastResponse'.res.error.name = "ValidationError") =>
          /\ errors' = ServerMapping(lastResponse'.res.error.details)
          /\ navs' = navs
          /\ rendered' = rendered
          /\ token' = token
          /\ apiError' = apiError]_vars

C6_Witness ==
    /\ lastResponse # NoResponse
    /\ lastResponse.op = "registerAdmin"
    /\ lastResponse.res.kind = "error"
    /\ lastResponse.res.error.name = "ValidationError"
    /\ errors = ServerMapping(lastResponse.res.error.details)
    /\ DOMAIN errors = {"firstname", "password"}
    /\ navs = <<>>
    /\ token = NoToken
    /\ apiError = NoMessage

\* positions of a step in the trace of a submit event
Positions(trace, step) == {i \in DOMAIN trace : trace[i] = step}

\* C7: a successful admin registration whose user has the role
\* strapi-super-admin stores the token and then navigates, once, to
\* /usecase?hasAdmin=true when the submitted news checkbox is true and
\* to / otherwise.
C7_AdminSuccessNavigation ==
    [][(/\ ResponseStep
        /\ lastResponse'.op = "registerAdmin"
        /\ lastResponse'.res.kind = "data"
        /\ \E i \in DOMAIN lastResponse'.res.roles :
                lastResponse'.res.roles[i] = "strapi-super-admin"
        /\ lastResponse'.sub = nSubmits') =>
          /\ token' = lastResponse'.res.token
          /\ navs' = Append(navs,
                [pathname |-> IF lastSubmit'.news THEN "/usecase" ELSE "/",
                 search |-> IF lastSubmit'.news THEN "?hasAdmin=true" ELSE "",
                 sub |-> lastResponse'.sub])
          /\ Cardinality(Positions(steps'[lastResponse'.sub], "navigate")) = 1
          /\ \A i \in Positions(steps'[lastResponse'.sub], "setToken"),
                j \in Positions(steps'[lastResponse'.sub], "navigate") : i < j
          /\ Positions(steps'[lastResponse'.sub], "setToken") # {}]_vars

C7_Witness ==
    /\ lastResponse # NoResponse
    /\ lastResponse.op = "registerAdmin"
    /\ lastResponse.res.kind = "data"
    /\ lastResponse.res.roles = <<"strapi-editor", "strapi-super-admin">>
    /\ lastResponse.sub = nSubmits
    /\ lastSubmit.news = TRUE
    /\ token = lastResponse.res.token
    /\ navs = <<[pathname |-> "/usecase", search |-> "?hasAdmin=true", sub |-> nSubmits]>>

\* the values of the Register request body that come from the form
SentValues ==
    IF lastCall.op = "registerUser" THEN lastCall.body.userInfo ELSE lastCall.body

\* C8: the body of a Register request holds firstname, lastname, email
\* and registrationToken trimmed, password unchanged, and no lastname
\* when the lastname is empty.
C8_BodyIsNormalized ==
    (component = "Register" /\ lastCall # NoCall) =>
        /\ SentValues.firstname = Trim(lastSubmit.firstname)
        /\ SentValues.password = lastSubmit.password
        /\ SentValues.lastname = IF Trim(lastSubmit.lastname) = <<>>
                                 THEN Undefined
                                 ELSE Trim(lastSubmit.lastname)
        /\ lastCall.op = "registerAdmin" =>
                lastCall.body.email = Trim(lastSubmit.email)
        /\ lastCall.op = "registerUser" =>
                lastCall.body.registrationToken = Trim(lastSubmit.registrationToken)

Mutations ==
    {"setErrors", "setSubmitCount", "setToken", "setSkipped",
     "setNpsSurveySettings", "setApiError", "setMutationError"}

\* the place of a side effect in the order validation, normalization,
\* network call, state mutation, navigation
RankAsStated(step) ==
    CASE step = "validate" -> 1
      [] step = "normalize" -> 2
      [] step = "call" -> 3
      [] step \in Mutations -> 4
      [] step = "navigate" -> 5

\* the place of a side effect in the order normalization, validation,
\* network call, state mutation, navigation
RankAsAmended(step) ==
    CASE step = "normalize" -> 1
      [] step = "validate" -> 2
      [] step = "call" -> 3
      [] step \in Mutations -> 4
      [] step = "navigate" -> 5

\* C9 as stated: in the trace of every submit event no side effect
\* comes before one that is earlier in the order validation,
\* normalization, network call, state mutation, navigation; there is at
\* most one network call, and the token is stored before navigate.
C9_OrderAsStated ==
    \A id \in DOMAIN steps :
        /\ \A i, j \in DOMAIN steps[id] :
                i < j => RankAsStated(steps[id][i]) <= RankAsStated(steps[id][j])
        /\ Cardinality(Positions(steps[id], "call")) <= 1
        /\ \A i \in Positions(steps[id], "navigate") :
                \E j \in Positions(steps[id], "setToken") : j < i

\* C9 as amended: the same with normalization first: normalization
\* (Register only), validation, network call, state mutation,
\* navigation.
C9_OrderAsAmended ==
    \A id \in DOMAIN steps :
        /\ \A i, j \in DOMAIN steps[id] :
                i < j => RankAsAmended(steps[id][i]) <= RankAsAmended(steps[id][j])
        /\ Cardinality(Positions(steps[id], "call")) <= 1
        /\ \A i \in Positions(steps[id], "navigate") :
                \E j \in Positions(steps[id], "setToken") : j < i

C9_Witness ==
    /\ component = "Register"
    /\ \E id \in DOMAIN steps :
            steps[id] = <<"normalize", "validate", "call", "setToken",
                          "setNpsSurveySettings", "navigate">>
    /\ token # NoToken
    /\ Len(navs) = 1

\* C10: the operation a Register submit calls, and its body, belong to
\* the variant of the route parameter, whose schema was validated:
\* registerAdmin with {firstname, lastname, email, password} on
\* register-admin, registerUser with {registrationToken, userInfo} on
\* register.
C10_OperationMatchesVariant ==
    (component = "Register" /\ lastCall # NoCall) =>
        /\ authType = "register-admin" =>
              /\ lastCall.op = "registerAdmin"
              /\ DOMAIN lastCall.body = {"firstname", "lastname", "email", "password"}
              /\ REGISTER_ADMIN_SCHEMA(normalizeData(lastSubmit)) = <<>>
        /\ authType = "register" =>
              /\ lastCall.op = "registerUser"
              /\ DOMAIN lastCall.body = {"registrationToken", "userInfo"}
              /\ REGISTER_USER_SCHEMA(normalizeData(lastSubmit)) = <<>>

\* C11: at most one submission request is in flight per mounted form:
\* while a resetPassword, registerAdmin or registerUser call is pending, a
\* second submit does not dispatch another request.
C11_AtMostOneInFlight ==
    Cardinality(pending) <= 1

\* C12: every failed response that is not a server validation error,
\* whatever the shape of the error, is surfaced as a top-level error
\* message; that response neither navigates, nor sets the token, nor
\* touches the submitted form values.
C12_OpaqueFailureSurfaced ==
    [][(/\ ResponseStep
        /\ lastResponse'.res.kind = "error"
        /\ lastResponse'.res.error.name # "ValidationError") =>
          /\ IF component = "Register"
             THEN RegisterBanner(apiError') # NoMessage
             ELSE ResetPasswordBanner(mutationError') # NoMessage
          /\ isBaseQueryError(lastResponse'.res.error) =>
                IF component = "Register"
                THEN RegisterBanner(apiError') = lastResponse'.res.error.message
                ELSE ResetPasswordBanner(mutationError') = lastResponse'.res.error.message
          /\ navs' = navs
          /\ rendered' = rendered
          /\ token' = token
          /\ lastSubmit' = lastSubmit]_vars

\* C13: in the Register form a top-level API error, once set, is never
\* cleared: every later step leaves it set, and it changes only when a
\* later response carries an opaque API error, whose message replaces it.
C13_ApiErrorPersists ==
    [][(component = "Register" /\ apiError # NoMessage) =>
          /\ apiError' # NoMessage
          /\ apiError' # apiError =>
                /\ ResponseStep
                /\ lastResponse'.res.kind = "error"
                /\ isBaseQueryError(lastResponse'.res.error)
                /\ lastResponse'.res.error.name # "ValidationError"
                /\ apiError' = lastResponse'.res.error.message]_vars

\* the banner of the first submission stands next to the field errors of
\* the second one, which failed client validation
C13_Witness ==
    /\ component = "Register"
    /\ apiError # NoMessage
    /\ nSubmits = 2
    /\ lastCall = NoCall
    /\ pending = {}
    /\ "password" \in DOMAIN errors
    /\ rendered = "form"

=============================================================================
